---- MODULE Spec2Model ----
(***************************************************************************)
(* Model of scanner.py: the rule engine check_number_rules, the worker     *)
(* worker_task / NovaClient.search_single_number, and the batch loop of    *)
(* main() with its pause-on-hit prompt.                                    *)
(*                                                                         *)
(* Strings are sequences of digits (0..9).  A value that may be None is    *)
(* a sequence of length at most one: <<>> is None, <<s>> is the string s.  *)
(* A reason string is the pair (rule, arg): rule names the f-string of the *)
(* return statement, arg is the text interpolated into it.                 *)
(***************************************************************************)
EXTENDS Integers, Sequences, FiniteSets, TLC

VARIABLES
    \* configuration globals (lines 29-41)
    ENABLE_A4, ENABLE_A3, ENABLE_ABC, ENABLE_ABCD, CUSTOM_TARGETS,
    \* one call of check_number_rules: its argument and its return value
    phone_number, verdict,
    \* main(): position of the main thread
    pc,
    \* main(): the list `futures` of the current batch
    futures,
    \* main(): the loop variable `result`
    result,
    total_attempts, completed_in_batch,
    \* the threading.Event allow_printing
    allow_printing,
    \* the match printed by lines 488-496
    shown,
    \* the progress line last written by lines 481-482, as
    \* <<total_attempts, completed_in_batch>>; <<>> before the first one
    progress,
    \* the status the process exited with: None while it runs
    exit_code,
    \* history: number of batches submitted so far
    rounds,
    \* history: the prompts shown for the current batch, as
    \* <<batch, completed_in_batch>>
    gate_log,
    \* history: the last step the main thread took
    last_step

cfgvars == <<ENABLE_A4, ENABLE_A3, ENABLE_ABC, ENABLE_ABCD, CUSTOM_TARGETS>>
rulevars == <<phone_number, verdict>>
mainvars == <<pc, futures, result, total_attempts, completed_in_batch,
              allow_printing, shown, progress, exit_code, rounds, gate_log,
              last_step>>
vars == <<cfgvars, rulevars, mainvars>>

\* ---------------------------------------------------------------- bounds
MaxParts == 3
MaxRounds == 3

\* CONCURRENT_WORKERS (line 21), scaled down from 100
CONCURRENT_WORKERS == 2

\* ------------------------------------------------------- string helpers
None == <<>>
Some(s) == <<s>>

\* Python's `sub in s` on str
Contains(sub, s) ==
    \E i \in 0..(Len(s) - Len(sub)) : SubSeq(s, i + 1, i + Len(sub)) = sub

\* re.search(r'(\d)\1{n-1,}', s)
ReSearchRepeat(n, s) ==
    \E i \in 1..(Len(s) - n + 1) : \A k \in 1..(n - 1) : s[i + k] = s[i]

forward_seq == <<0, 1, 2, 3, 4, 5, 6, 7, 8, 9>>
backward_seq == <<9, 8, 7, 6, 5, 4, 3, 2, 1, 0>>

\* seq[i:i+n]
Slice(seq, i, n) == SubSeq(seq, i + 1, i + n)

\* the indices i of `for i in range(len(seq) - (n-1))` whose window occurs in s
WindowHits(seq, n, s) ==
    {i \in 0..(Len(seq) - (n - 1) - 1) : Contains(Slice(seq, i, n), s)}

MinOf(S) == CHOOSE x \in S : \A y \in S : x <= y

\* the indices of the targets of CUSTOM_TARGETS that occur in s
TargetHits(s) ==
    {j \in 1..Len(CUSTOM_TARGETS) : Contains(CUSTOM_TARGETS[j], s)}

Result(m, rule, arg) == [matched |-> m, rule |-> rule, arg |-> arg]

NoResult == Result(FALSE, "none", <<>>)

\* the first window of seq, in loop order, that occurs in s
SeqResult(rule, seq, n, s) ==
    Result(TRUE, rule, Slice(seq, MinOf(WindowHits(seq, n, s)), n))

\* lines 94-120 with the 5-digit check behind the ABCD toggle
SequenceRules_gated5(s) ==
    IF ENABLE_ABCD /\ WindowHits(forward_seq, 5, s) # {}
    THEN SeqResult("forward5", forward_seq, 5, s)
    ELSE IF ENABLE_ABCD /\ WindowHits(backward_seq, 5, s) # {}
    THEN SeqResult("backward5", backward_seq, 5, s)
    ELSE IF ENABLE_ABCD /\ WindowHits(forward_seq, 4, s) # {}
    THEN SeqResult("forward4", forward_seq, 4, s)
    ELSE IF ENABLE_ABCD /\ WindowHits(backward_seq, 4, s) # {}
    THEN SeqResult("backward4", backward_seq, 4, s)
    ELSE IF ENABLE_ABC /\ WindowHits(forward_seq, 3, s) # {}
    THEN SeqResult("forward3", forward_seq, 3, s)
    ELSE IF ENABLE_ABC /\ WindowHits(backward_seq, 3, s) # {}
    THEN SeqResult("backward3", backward_seq, 3, s)
    ELSE Result(FALSE, "ordinary", <<>>)

\* rules 4-6 and the final return (lines 90-120)
SequenceRules(s) ==
    IF WindowHits(forward_seq, 5, s) # {}
    THEN SeqResult("forward5", forward_seq, 5, s)
    ELSE IF WindowHits(backward_seq, 5, s) # {}
    THEN SeqResult("backward5", backward_seq, 5, s)
    ELSE IF ENABLE_ABCD /\ WindowHits(forward_seq, 4, s) # {}
    THEN SeqResult("forward4", forward_seq, 4, s)
    ELSE IF ENABLE_ABCD /\ WindowHits(backward_seq, 4, s) # {}
    THEN SeqResult("backward4", backward_seq, 4, s)
    ELSE IF ENABLE_ABC /\ WindowHits(forward_seq, 3, s) # {}
    THEN SeqResult("forward3", forward_seq, 3, s)
    ELSE IF ENABLE_ABC /\ WindowHits(backward_seq, 3, s) # {}
    THEN SeqResult("backward3", backward_seq, 3, s)
    ELSE Result(FALSE, "ordinary", <<>>)

\* lines 82-88 with the A3 check ahead of the A4 check
RepeatRules_A3first(s) ==
    IF ENABLE_A3 /\ ReSearchRepeat(3, s)
    THEN Result(TRUE, "A3", <<>>)
    ELSE IF ENABLE_A4 /\ ReSearchRepeat(4, s)
    THEN Result(TRUE, "A4", <<>>)
    ELSE SequenceRules(s)

\* lines 82-88 with the A3 check nested under the A4 toggle
RepeatRules_A3underA4(s) ==
    IF ENABLE_A4 /\ ReSearchRepeat(4, s)
    THEN Result(TRUE, "A4", <<>>)
    ELSE IF ENABLE_A4 /\ ENABLE_A3 /\ ReSearchRepeat(3, s)
    THEN Result(TRUE, "A3", <<>>)
    ELSE SequenceRules(s)

\* rules 2-3 (lines 82-88), then the rest of the function
RepeatRules(s) ==
    IF ENABLE_A4 /\ ReSearchRepeat(4, s)
    THEN Result(TRUE, "A4", <<>>)
    ELSE IF ENABLE_A3 /\ ReSearchRepeat(3, s)
    THEN Result(TRUE, "A3", <<>>)
    ELSE SequenceRules(s)

\* the custom targets consulted only when no structural rule fires
check_number_rules_customLast(pn) ==
    IF pn = None \/ pn[1] = <<>>
    THEN Result(FALSE, "empty", <<>>)
    ELSE LET s == pn[1] IN
         IF RepeatRules(s).matched
         THEN RepeatRules(s)
         ELSE IF TargetHits(s) # {}
         THEN Result(TRUE, "custom", CUSTOM_TARGETS[MinOf(TargetHits(s))])
         ELSE RepeatRules(s)

\* the emptiness test applied to None only, not to the empty string
check_number_rules_noneOnly(pn) ==
    IF pn = None
    THEN Result(FALSE, "empty", <<>>)
    ELSE LET s == pn[1] IN
         IF TargetHits(s) # {}
         THEN Result(TRUE, "custom", CUSTOM_TARGETS[MinOf(TargetHits(s))])
         ELSE RepeatRules(s)

\* check_number_rules (lines 68-120); pn is None or a string
check_number_rules(pn) ==
    IF pn = None \/ pn[1] = <<>>
    THEN Result(FALSE, "empty", <<>>)
    ELSE LET s == pn[1] IN
         IF TargetHits(s) # {}
         THEN Result(TRUE, "custom", CUSTOM_TARGETS[MinOf(TargetHits(s))])
         ELSE RepeatRules(s)

\* ------------------------------------------------------------ worker
\* What the endpoint can answer to one query, as post_graphql and
\* search_single_number see it (lines 153-196):
\*   failed          post_graphql caught an exception and returned None
\*   no_data         the JSON object has no 'data' key
\*   data_null       'data' is null
\*   no_field        'data' has no 'availablePhoneNumbers'
\*   empty_list      the list is null or empty
\*   no_phoneNumber  the first element has no 'phoneNumber' key
\*   ok              the first element carries phoneNumber = number
Response(shape, number) == [shape |-> shape, number |-> number]

Responses ==
    {Response(sh, None) :
        sh \in {"failed", "no_data", "data_null", "no_field", "empty_list",
                "no_phoneNumber"}}
    \cup {Response("ok", n) :
            n \in {None, Some(<<>>),
                   Some(<<1, 3, 5, 7, 9>>),
                   Some(<<8, 8, 8, 1, 2, 3, 4, 5>>),
                   Some(<<7, 7, 7, 7, 1, 2, 3, 4>>)}}

\* NovaClient.search_single_number (lines 170-196): the pair it returns, or
\* the exception it lets through
search_single_number(resp) ==
    IF resp.shape \in {"data_null", "no_phoneNumber"}
    THEN [raised |-> TRUE, number |-> None, raw |-> None]
    ELSE IF resp.shape = "ok"
    THEN [raised |-> FALSE, number |-> resp.number, raw |-> Some(resp)]
    ELSE [raised |-> FALSE, number |-> None, raw |-> None]

Outcome(status, number, reason, response) ==
    [status |-> status, number |-> number, reason |-> reason,
     response |-> response]

NoOutcome == Outcome("NONE", None, <<>>, None)
RETRY == Outcome("RETRY", None, <<>>, None)
ERROR == Outcome("ERROR", None, <<>>, None)

\* worker_task without its try/except: the exception of the query reaches
\* the future
worker_task_noCatch(resp) ==
    LET q == search_single_number(resp) IN
    IF q.raised
    THEN Outcome("RAISED", None, <<>>, None)
    ELSE IF q.number # None /\ q.number[1] # <<>>
    THEN LET v == check_number_rules(q.number) IN
         IF v.matched
         THEN Outcome("FOUND", q.number, <<v.rule, v.arg>>, q.raw)
         ELSE RETRY
    ELSE RETRY

\* worker_task (lines 432-451) on the answer resp of the endpoint
worker_task(resp) ==
    LET q == search_single_number(resp) IN
    IF q.raised
    THEN ERROR
    ELSE IF q.number # None /\ q.number[1] # <<>>
    THEN LET v == check_number_rules(q.number) IN
         IF v.matched
         THEN Outcome("FOUND", q.number, <<v.rule, v.arg>>, q.raw)
         ELSE RETRY
    ELSE RETRY

\* -------------------------------------------------------------- main()
Workers == 1..CONCURRENT_WORKERS

Future(state, round, outcome) ==
    [state |-> state, round |-> round, outcome |-> outcome]

\* what the operator may type at the prompt of line 501
Inputs == {"", "c", "q", "Q", " q ", "quit"}

\* .strip().lower() on those lines
StripLower(line) ==
    CASE line = "Q" -> "q"
      [] line = " q " -> "q"
      [] OTHER -> line

\* state of main() at the `while True` of line 466, with the globals of
\* lines 60-62
MainInit ==
    /\ pc = "start"
    /\ futures = [w \in Workers |-> Future("none", 0, NoOutcome)]
    /\ result = NoOutcome
    /\ total_attempts = 0
    /\ completed_in_batch = 0
    /\ allow_printing = TRUE
    /\ shown = NoOutcome
    /\ progress = <<>>
    /\ exit_code = None
    /\ rounds = 0
    /\ gate_log = {}
    /\ last_step = "init"

\* the configuration of lines 29-41
Init ==
    /\ ENABLE_A4 = TRUE
    /\ ENABLE_A3 = TRUE
    /\ ENABLE_ABC = FALSE
    /\ ENABLE_ABCD = TRUE
    /\ CUSTOM_TARGETS = << <<8, 8, 8>>, <<6, 6, 6>>, <<5, 2, 0>>, <<1, 3, 1, 4>> >>
    /\ phone_number = None
    /\ verdict = NoResult
    /\ MainInit

\* range(CONCURRENT_WORKERS - 1): the batch one future short
Submit_short ==
    /\ pc = "start"
    /\ rounds < MaxRounds
    /\ futures' = [w \in Workers |->
                     IF w < CONCURRENT_WORKERS
                     THEN Future("running", rounds + 1, NoOutcome)
                     ELSE futures[w]]
    /\ rounds' = rounds + 1
    /\ completed_in_batch' = 0
    /\ pc' = "collect"
    /\ last_step' = "submit"
    /\ gate_log' = {}
    /\ UNCHANGED progress
    /\ UNCHANGED <<cfgvars, rulevars, result, total_attempts, allow_printing,
                   shown, exit_code>>

\* the batch submitted from a timer, whatever the main thread is doing
Submit_whileGated ==
    /\ pc \in {"start", "gate"}
    /\ rounds < MaxRounds
    /\ futures' = [w \in Workers |-> Future("running", rounds + 1, NoOutcome)]
    /\ rounds' = rounds + 1
    /\ completed_in_batch' = 0
    /\ pc' = "collect"
    /\ last_step' = "submit"
    /\ gate_log' = {}
    /\ UNCHANGED progress
    /\ UNCHANGED <<cfgvars, rulevars, result, total_attempts, allow_printing,
                   shown, exit_code>>

\* lines 468-471: submit one batch and reset the batch counter
Submit ==
    /\ pc = "start"
    /\ rounds < MaxRounds
    /\ futures' = [w \in Workers |-> Future("running", rounds + 1, NoOutcome)]
    /\ rounds' = rounds + 1
    /\ completed_in_batch' = 0
    /\ pc' = "collect"
    /\ last_step' = "submit"
    /\ gate_log' = {}
    /\ UNCHANGED progress
    /\ UNCHANGED <<cfgvars, rulevars, result, total_attempts, allow_printing,
                   shown, exit_code>>

\* a pool thread finishes worker_task: the future gets its result
WorkerComplete(w) ==
    /\ futures[w].state = "running"
    /\ \E resp \in Responses :
          futures' = [futures EXCEPT ![w].state = "done",
                                     ![w].outcome = worker_task(resp)]
    /\ UNCHANGED progress
    /\ UNCHANGED <<cfgvars, rulevars, pc, result, total_attempts,
                   completed_in_batch, allow_printing, shown, exit_code,
                   rounds, gate_log, last_step>>

\* the for loop still draining finished futures after 'q'
Consume_afterStop(w) ==
    /\ pc \in {"collect", "exiting"}
    /\ futures[w].state = "done"
    /\ futures' = [futures EXCEPT ![w].state = "yielded"]
    /\ result' = futures[w].outcome
    /\ total_attempts' = total_attempts + 1
    /\ completed_in_batch' = completed_in_batch + 1
    /\ pc' = IF pc = "exiting" THEN "exiting"
             ELSE IF futures[w].outcome.status = "FOUND" THEN "found"
             ELSE "collect"
    /\ last_step' = IF pc = "exiting" THEN last_step ELSE "consume"
    /\ progress' = IF allow_printing
                   THEN <<total_attempts', completed_in_batch'>>
                   ELSE progress
    /\ UNCHANGED <<cfgvars, rulevars, allow_printing, shown, exit_code,
                   rounds, gate_log>>

\* a match held back until the rest of the batch has been counted
Consume_deferGate(w) ==
    /\ pc = "collect"
    /\ futures[w].state = "done"
    /\ futures' = [futures EXCEPT ![w].state = "yielded"]
    /\ result' = IF futures[w].outcome.status = "FOUND" \/ result.status # "FOUND"
                 THEN futures[w].outcome ELSE result
    /\ total_attempts' = total_attempts + 1
    /\ completed_in_batch' = completed_in_batch + 1
    /\ pc' = IF /\ result'.status = "FOUND"
                /\ \A v \in Workers : futures'[v].state = "yielded"
             THEN "found" ELSE "collect"
    /\ last_step' = "consume"
    /\ progress' = IF allow_printing
                   THEN <<total_attempts', completed_in_batch'>>
                   ELSE progress
    /\ UNCHANGED <<cfgvars, rulevars, allow_printing, shown, exit_code,
                   rounds, gate_log>>

\* an ERROR outcome treated like a match
Consume_gateOnError(w) ==
    /\ pc = "collect"
    /\ futures[w].state = "done"
    /\ futures' = [futures EXCEPT ![w].state = "yielded"]
    /\ result' = futures[w].outcome
    /\ total_attempts' = total_attempts + 1
    /\ completed_in_batch' = completed_in_batch + 1
    /\ pc' = IF futures[w].outcome.status \in {"FOUND", "ERROR"}
             THEN "found" ELSE "collect"
    /\ last_step' = "consume"
    /\ progress' = IF allow_printing
                   THEN <<total_attempts', completed_in_batch'>>
                   ELSE progress
    /\ UNCHANGED <<cfgvars, rulevars, allow_printing, shown, exit_code,
                   rounds, gate_log>>

\* an ERROR outcome left out of total_attempts
Consume_errorUncounted(w) ==
    /\ pc = "collect"
    /\ futures[w].state = "done"
    /\ futures' = [futures EXCEPT ![w].state = "yielded"]
    /\ result' = futures[w].outcome
    /\ total_attempts' = IF futures[w].outcome.status = "ERROR"
                         THEN total_attempts ELSE total_attempts + 1
    /\ completed_in_batch' = completed_in_batch + 1
    /\ pc' = IF futures[w].outcome.status = "FOUND" THEN "found" ELSE "collect"
    /\ last_step' = "consume"
    /\ progress' = IF allow_printing
                   THEN <<total_attempts', completed_in_batch'>>
                   ELSE progress
    /\ UNCHANGED <<cfgvars, rulevars, allow_printing, shown, exit_code,
                   rounds, gate_log>>

\* only the first match of a batch brought to the prompt
Consume_oneGatePerBatch(w) ==
    /\ pc = "collect"
    /\ futures[w].state = "done"
    /\ futures' = [futures EXCEPT ![w].state = "yielded"]
    /\ result' = futures[w].outcome
    /\ total_attempts' = total_attempts + 1
    /\ completed_in_batch' = completed_in_batch + 1
    /\ pc' = IF futures[w].outcome.status = "FOUND" /\ gate_log = {}
             THEN "found" ELSE "collect"
    /\ last_step' = "consume"
    /\ progress' = IF allow_printing
                   THEN <<total_attempts', completed_in_batch'>>
                   ELSE progress
    /\ UNCHANGED <<cfgvars, rulevars, allow_printing, shown, exit_code,
                   rounds, gate_log>>

\* lines 474-484: as_completed yields a finished future; count it and test
\* its status
Consume(w) ==
    /\ pc = "collect"
    /\ futures[w].state = "done"
    /\ futures' = [futures EXCEPT ![w].state = "yielded"]
    /\ result' = futures[w].outcome
    /\ total_attempts' = total_attempts + 1
    /\ completed_in_batch' = completed_in_batch + 1
    /\ pc' = IF futures[w].outcome.status = "FOUND" THEN "found" ELSE "collect"
    /\ last_step' = "consume"
    /\ progress' = IF allow_printing
                   THEN <<total_attempts', completed_in_batch'>>
                   ELSE progress
    /\ UNCHANGED <<cfgvars, rulevars, allow_printing, shown, exit_code,
                   rounds, gate_log>>

\* the match printed with the progress line left on
Present_keepPrinting ==
    /\ pc = "found"
    /\ allow_printing' = allow_printing
    /\ shown' = result
    /\ gate_log' = gate_log \cup {<<rounds, completed_in_batch>>}
    /\ pc' = "gate"
    /\ last_step' = "present"
    /\ UNCHANGED progress
    /\ UNCHANGED <<cfgvars, rulevars, futures, result, total_attempts,
                   completed_in_batch, exit_code, rounds>>

\* lines 486-500: stop the progress line, print the match and the prompt
Present ==
    /\ pc = "found"
    /\ allow_printing' = FALSE
    /\ shown' = result
    /\ gate_log' = gate_log \cup {<<rounds, completed_in_batch>>}
    /\ pc' = "gate"
    /\ last_step' = "present"
    /\ UNCHANGED progress
    /\ UNCHANGED <<cfgvars, rulevars, futures, result, total_attempts,
                   completed_in_batch, exit_code, rounds>>

\* a line other than 'q' leaving the for loop for the pacing delay
Decide_break(line) ==
    /\ pc = "gate"
    /\ IF StripLower(line) = "q"
       THEN /\ pc' = "exiting"
            /\ last_step' = "stop"
            /\ UNCHANGED allow_printing
       ELSE /\ pc' = "sleep"
            /\ last_step' = "continue"
            /\ allow_printing' = TRUE
    /\ UNCHANGED progress
    /\ UNCHANGED <<cfgvars, rulevars, futures, result, total_attempts,
                   completed_in_batch, shown, exit_code, rounds, gate_log>>

\* a line other than 'q' going straight back to line 466
Decide_newRound(line) ==
    /\ pc = "gate"
    /\ IF StripLower(line) = "q"
       THEN /\ pc' = "exiting"
            /\ last_step' = "stop"
            /\ UNCHANGED allow_printing
       ELSE /\ pc' = "start"
            /\ last_step' = "continue"
            /\ allow_printing' = TRUE
    /\ UNCHANGED progress
    /\ UNCHANGED <<cfgvars, rulevars, futures, result, total_attempts,
                   completed_in_batch, shown, exit_code, rounds, gate_log>>

\* lines 501-510: read the operator's line; 'q' raises SystemExit(0), any
\* other line restores the progress line and goes on with the for loop
Decide(line) ==
    /\ pc = "gate"
    /\ IF StripLower(line) = "q"
       THEN /\ pc' = "exiting"
            /\ last_step' = "stop"
            /\ UNCHANGED allow_printing
       ELSE /\ pc' = "collect"
            /\ last_step' = "continue"
            /\ allow_printing' = TRUE
    /\ UNCHANGED progress
    /\ UNCHANGED <<cfgvars, rulevars, futures, result, total_attempts,
                   completed_in_batch, shown, exit_code, rounds, gate_log>>

\* the for loop left as soon as one future has been consumed
EndRound_early ==
    /\ pc = "collect"
    /\ \E w \in Workers : futures[w].state = "yielded"
    /\ pc' = "sleep"
    /\ last_step' = "endround"
    /\ UNCHANGED progress
    /\ UNCHANGED <<cfgvars, rulevars, futures, result, total_attempts,
                   completed_in_batch, allow_printing, shown, exit_code,
                   rounds, gate_log>>

\* the end of the for loop going back to line 466 without the sleep
EndRound_noDelay ==
    /\ pc = "collect"
    /\ \A w \in Workers : futures[w].state = "yielded"
    /\ pc' = "start"
    /\ last_step' = "endround"
    /\ UNCHANGED progress
    /\ UNCHANGED <<cfgvars, rulevars, futures, result, total_attempts,
                   completed_in_batch, allow_printing, shown, exit_code,
                   rounds, gate_log>>

\* line 474: as_completed is exhausted, the for loop ends
EndRound ==
    /\ pc = "collect"
    /\ \A w \in Workers : futures[w].state = "yielded"
    /\ pc' = "sleep"
    /\ last_step' = "endround"
    /\ UNCHANGED progress
    /\ UNCHANGED <<cfgvars, rulevars, futures, result, total_attempts,
                   completed_in_batch, allow_printing, shown, exit_code,
                   rounds, gate_log>>

\* line 513: time.sleep(BATCH_DELAY), then back to line 466
Sleep ==
    /\ pc = "sleep"
    /\ pc' = "start"
    /\ last_step' = "sleep"
    /\ UNCHANGED progress
    /\ UNCHANGED <<cfgvars, rulevars, futures, result, total_attempts,
                   completed_in_batch, allow_printing, shown, exit_code,
                   rounds, gate_log>>

\* SystemExit leaves the `with` of line 465: ThreadPoolExecutor.__exit__
\* joins the pool threads, then the process ends with status 0
Exit ==
    /\ pc = "exiting"
    /\ \A w \in Workers : futures[w].state # "running"
    /\ pc' = "stopped"
    /\ exit_code' = Some(0)
    /\ last_step' = "exit"
    /\ UNCHANGED progress
    /\ UNCHANGED <<cfgvars, rulevars, futures, result, total_attempts,
                   completed_in_batch, allow_printing, shown, rounds, gate_log>>

\* line 501 with stdin at end of file: input() raises EOFError, which nothing
\* catches; it leaves the for loop, the while loop and the `with` block
DecideEOF ==
    /\ pc = "gate"
    /\ pc' = "raising"
    /\ last_step' = "eof"
    /\ UNCHANGED progress
    /\ UNCHANGED <<cfgvars, rulevars, futures, result, total_attempts,
                   completed_in_batch, allow_printing, shown, exit_code,
                   rounds, gate_log>>

\* the EOFError leaves the `with` of line 465 (the pool threads are joined)
\* and main(): the interpreter prints the traceback and ends with status 1
Crash ==
    /\ pc = "raising"
    /\ \A w \in Workers : futures[w].state # "running"
    /\ pc' = "crashed"
    /\ exit_code' = Some(1)
    /\ last_step' = "crash"
    /\ UNCHANGED progress
    /\ UNCHANGED <<cfgvars, rulevars, futures, result, total_attempts,
                   completed_in_batch, allow_printing, shown, rounds, gate_log>>

Next ==
    \/ Submit
    \/ \E w \in Workers : WorkerComplete(w)
    \/ \E w \in Workers : Consume(w)
    \/ Present
    \/ \E line \in Inputs : Decide(line)
    \/ DecideEOF
    \/ EndRound
    \/ Sleep
    \/ Exit
    \/ Crash

Spec == Init /\ [][Next]_vars

\* every worker_task call returns (the request has a timeout, line 163) and
\* the main thread keeps running
FairSpec ==
    /\ Spec
    /\ WF_vars(\E w \in Workers : WorkerComplete(w))
    /\ WF_vars(\E w \in Workers : Consume(w))
    /\ WF_vars(Present)
    /\ WF_vars(EndRound)
    /\ WF_vars(Sleep)
    /\ WF_vars(Exit)
    /\ WF_vars(Crash)

\* main() with an operator who answers every prompt with a line
NextAnswered ==
    \/ Submit
    \/ \E w \in Workers : WorkerComplete(w)
    \/ \E w \in Workers : Consume(w)
    \/ Present
    \/ \E line \in Inputs : Decide(line)
    \/ EndRound
    \/ Sleep
    \/ Exit

\* every worker_task call returns (the request has a timeout, line 163), the
\* main thread keeps running, the sleep of line 513 ends, and the operator
\* answers every prompt
LiveSpec ==
    /\ Init
    /\ [][NextAnswered]_vars
    /\ WF_vars(Submit)
    /\ WF_vars(\E w \in Workers : WorkerComplete(w))
    /\ WF_vars(\E w \in Workers : Consume(w))
    /\ WF_vars(Present)
    /\ WF_vars(\E line \in Inputs : Decide(line))
    /\ WF_vars(EndRound)
    /\ WF_vars(Sleep)
    /\ WF_vars(Exit)

\* ------------------------------------------- rule classes, declaratively
\* w occurs in s as a contiguous substring
Occurs(w, s) ==
    \E off \in 0..(Len(s) - Len(w)) : \A k \in 1..Len(w) : s[off + k] = w[k]

\* s holds n consecutive occurrences of one digit
HasRun(s, n) ==
    \E d \in {s[i] : i \in 1..Len(s)} : Occurs([k \in 1..n |-> d], s)

AscRuns(n) == {[k \in 1..n |-> d + k - 1] : d \in 0..(10 - n)}
DescRuns(n) == {[k \in 1..n |-> d - k + 1] : d \in (n - 1)..9}

\* s holds an ascending or descending run of n consecutive digits
HasSeq(s, n) ==
    \E w \in AscRuns(n) \cup DescRuns(n) : Occurs(w, s)

HasLiteral(s) ==
    \E j \in 1..Len(CUSTOM_TARGETS) : Occurs(CUSTOM_TARGETS[j], s)

\* the rule that the fixed order selects for s, as the class of its reason
ExpectedRules(s) ==
    IF HasLiteral(s) THEN {"custom"}
    ELSE IF ENABLE_A4 /\ HasRun(s, 4) THEN {"A4"}
    ELSE IF ENABLE_A3 /\ HasRun(s, 3) THEN {"A3"}
    ELSE IF HasSeq(s, 5) THEN {"forward5", "backward5"}
    ELSE IF ENABLE_ABCD /\ HasSeq(s, 4) THEN {"forward4", "backward4"}
    ELSE IF ENABLE_ABC /\ HasSeq(s, 3) THEN {"forward3", "backward3"}
    ELSE {"ordinary"}

\* ------------------------------------------------- properties of main()
Yielded == {w \in Workers : futures[w].state = "yielded"}
Counters == <<total_attempts, completed_in_batch>>

\* a step taken while the prompt is open submits nothing
GatedStep ==
    pc = "gate" =>
        /\ rounds' = rounds
        /\ \A w \in Workers : futures'[w].round = futures[w].round

\* a step taken after 'q' leaves the counters and the batches alone
StoppedStep ==
    pc \in {"exiting", "stopped"} =>
        /\ rounds' = rounds
        /\ Counters' = Counters
        /\ Yielded' = Yielded
        /\ pc' \in {"exiting", "stopped"}

\* the step that counts a FOUND outcome goes to the prompt
MatchConsumedStep ==
    (total_attempts' = total_attempts + 1 /\ result'.status = "FOUND") => pc' = "found"

\* a step taken between the consumption of a match and its prompt
FoundStep ==
    pc = "found" =>
        /\ Counters' = Counters
        /\ Yielded' = Yielded
        /\ pc' \in {"found", "gate"}
        /\ pc' = "gate" => shown' = result

\* the first step of the main thread after a Continue
AfterContinueSubmits ==
    (last_step = "continue" /\ last_step' # last_step) =>
        (last_step' = "submit" /\ rounds' = rounds + 1)

AfterContinueCollects ==
    (last_step = "continue" /\ last_step' # last_step) =>
        /\ last_step' \in {"consume", "endround"}
        /\ rounds' = rounds

\* C1 as stated: when the prompt of a match is shown, every outcome of the
\* batch has already been counted.
C1_AllCountedBeforeGate ==
    pc = "gate" =>
        /\ completed_in_batch = CONCURRENT_WORKERS
        /\ Yielded = Workers

\* C1: the prompt of a match is shown as soon as the match is consumed; the
\* outcomes of the other workers of the batch are counted after the operator
\* continues, and all of them have been counted when the for loop ends, before
\* the pacing delay and the next batch.
C1_AllCountedBeforeNextRound ==
    /\ pc = "gate" => <<rounds, completed_in_batch>> \in gate_log
    /\ (pc \in {"sleep", "start"} /\ rounds > 0) =>
          /\ Yielded = Workers
          /\ completed_in_batch = CONCURRENT_WORKERS
          /\ total_attempts = rounds * CONCURRENT_WORKERS

\* a batch whose first consumed outcome was a match, at its pacing delay
C1_Witness ==
    /\ pc = "sleep"
    /\ <<rounds, 1>> \in gate_log
    /\ completed_in_batch = CONCURRENT_WORKERS

\* C2: while the prompt is open every future belongs to the batch of the
\* match, and no step taken meanwhile submits a batch.
C2_NoDispatchWhileGated ==
    /\ [](pc = "gate" => \A w \in Workers : futures[w].round = rounds)
    /\ [][GatedStep]_vars

\* the prompt open, one outcome counted, every other worker finished meanwhile
C2_Witness ==
    /\ pc = "gate"
    /\ completed_in_batch = 1
    /\ \A w \in Workers : futures[w].state \in {"done", "yielded"}
    /\ rounds = 1

\* C3: after 'q' no batch is submitted, the counters and the set of consumed
\* futures never change, and the process ends with status 0.
C3_StopIsFinal ==
    /\ [][StoppedStep]_vars
    /\ [](pc = "stopped" <=> exit_code = Some(0))
    /\ (pc = "exiting" ~> (pc = "stopped" /\ exit_code = Some(0)))

\* stopped with outcomes that finished but were never counted
C3_Witness ==
    /\ pc = "stopped"
    /\ exit_code = Some(0)
    /\ completed_in_batch < CONCURRENT_WORKERS
    /\ \E w \in Workers : futures[w].state = "done"

\* C9: consuming a match leads straight to the prompt: the step that counts
\* a FOUND outcome puts the main thread before the prompt, and from there
\* until the prompt is shown nothing is consumed and no counter changes.
C9_GateImmediately ==
    /\ [][MatchConsumedStep]_vars
    /\ [][FoundStep]_vars

\* the prompt shown after one outcome, the rest of the batch still running
C9_Witness ==
    /\ pc = "gate"
    /\ completed_in_batch = 1
    /\ \A w \in Workers \ Yielded : futures[w].state = "running"
    /\ Yielded # Workers

\* C10 as stated: the first step of the main thread after a Continue submits
\* a batch.
C10_ContinueDispatches ==
    [][AfterContinueSubmits]_vars

\* C10: after a Continue the main thread goes on collecting the same batch:
\* its first step consumes another outcome of that batch or ends the for
\* loop, and it submits no batch.
C10_ContinueResumesCollection ==
    /\ [](last_step = "continue" => (pc = "collect" /\ allow_printing))
    /\ [][AfterContinueCollects]_vars

\* an outcome consumed after a prompt of the same batch
C10_Witness ==
    /\ last_step = "consume"
    /\ \E k \in 1..CONCURRENT_WORKERS :
          <<rounds, k>> \in gate_log /\ k < completed_in_batch

\* how the prompt is left: 'q' stops, anything else continues
GateResolves ==
    (pc = "gate" /\ pc' # "gate") =>
        \/ last_step' = "stop" /\ pc' = "exiting"
        \/ last_step' = "continue" /\ pc' = "collect"

\* C11: the main thread starts at round start; the only way out of the
\* prompt other than the stop token 'q' is to continue, so the process ends
\* only after the stop token, with status 0.
C11_StopOnlyByToken ==
    /\ [][GateResolves]_vars
    /\ [](exit_code # None => (pc = "stopped" /\ exit_code = Some(0)))

\* futures submitted and not yet consumed
InFlight == rounds * CONCURRENT_WORKERS - total_attempts

\* a step that submits: a whole batch, and nothing was left in flight
DispatchStep ==
    rounds' # rounds =>
        /\ rounds' = rounds + 1
        /\ InFlight = 0
        /\ InFlight' = CONCURRENT_WORKERS
        /\ Cardinality({w \in Workers : futures'[w].state = "running"
                                        /\ futures'[w].round = rounds'})
              = CONCURRENT_WORKERS

\* C12: every submission is a batch of exactly CONCURRENT_WORKERS futures,
\* and at no time are more than CONCURRENT_WORKERS futures submitted and not
\* yet consumed.
C12_BoundedPool ==
    /\ [](InFlight >= 0 /\ InFlight <= CONCURRENT_WORKERS)
    /\ [][DispatchStep]_vars

\* the second batch just submitted: a full batch in flight, none of the first
C12_Witness ==
    /\ rounds = 2
    /\ last_step = "submit"
    /\ InFlight = CONCURRENT_WORKERS
    /\ \A w \in Workers : futures[w].round = 2

\* a step that submits a batch other than the first
BarrierStep ==
    (rounds' # rounds /\ rounds > 0) =>
        /\ Yielded = Workers
        /\ \A w \in Workers : futures[w].round = rounds
        /\ completed_in_batch = CONCURRENT_WORKERS
        /\ total_attempts = rounds * CONCURRENT_WORKERS

NoDispatchAfterStop ==
    pc \in {"exiting", "stopped"} => rounds' = rounds

\* C13: a batch other than the first is submitted only when every future of
\* the batch before it has been consumed and counted, whatever the order of
\* completion and however many prompts that batch went through; after a Stop
\* no batch is submitted.
C13_RoundBarrier ==
    /\ [][BarrierStep]_vars
    /\ [][NoDispatchAfterStop]_vars

\* the second batch being collected after a first batch that had a prompt
C13_Witness ==
    /\ rounds = 2
    /\ pc = "collect"
    /\ total_attempts = CONCURRENT_WORKERS + 1
    /\ shown.status = "FOUND"

\* the steps of the main thread around the pacing delay
PacingStep ==
    /\ (rounds' # rounds /\ rounds > 0) => last_step = "sleep"
    /\ (last_step' = "sleep" /\ last_step # "sleep") => last_step = "endround"
    /\ (last_step = "endround" /\ last_step' # last_step) => last_step' = "sleep"
    /\ (last_step = "sleep" /\ last_step' # last_step) =>
          (last_step' = "submit" /\ rounds' = rounds + 1)

\* C14: the end of the collection of a batch is followed by one pacing delay
\* and then by the submission of the next batch; no batch other than the
\* first is submitted without the delay right before it, also when the batch
\* went through prompts answered with Continue.
C14_OneDelayPerRound ==
    [][PacingStep]_vars

\* the second batch submitted after a first batch that had a prompt
C14_Witness ==
    /\ rounds = 2
    /\ last_step = "submit"
    /\ shown.status = "FOUND"
    /\ allow_printing

\* the futures that hold a result
Finished == {w \in Workers : futures[w].state \in {"done", "yielded"}}

\* the outcome o is a match justified by the answer it carries: a fetched,
\* non-empty number that some rule of the configuration selects
JustifiedMatch(o) ==
    /\ o.number # None
    /\ o.number[1] # <<>>
    /\ o.response = Some(Response("ok", o.number))
    /\ Len(o.reason) = 2
    /\ o.reason[1] \in ExpectedRules(o.number[1])
    /\ o.reason[1] # "ordinary"

\* C15: whatever the endpoint answers, a finished future holds exactly one
\* of the three typed outcomes and never an exception, and it holds FOUND
\* only for a fetched non-empty number that the rules match.
C15_WorkerNeverRaises ==
    \A w \in Finished :
        /\ futures[w].outcome.status \in {"FOUND", "RETRY", "ERROR"}
        /\ futures[w].outcome.status = "FOUND" => JustifiedMatch(futures[w].outcome)
        /\ futures[w].outcome.status # "FOUND" =>
              futures[w].outcome \in {RETRY, ERROR}

\* the three outcomes: RETRY consumed from the first batch, ERROR and FOUND
\* held by the futures of the second
C15_Witness ==
    /\ result = RETRY
    /\ rounds = 2
    /\ \E w \in Finished : futures[w].outcome = ERROR
    /\ \E w \in Finished : futures[w].outcome.status = "FOUND"

\* the step that counts an outcome
ConsumeStep == total_attempts' = total_attempts + 1

\* what counting an outcome does, by the status of the outcome
OutcomeStep ==
    /\ ConsumeStep =>
          /\ completed_in_batch' = completed_in_batch + 1
          /\ result'.status \in {"FOUND", "RETRY", "ERROR"}
          /\ (pc' = "found") <=> (result'.status = "FOUND")
          /\ result'.status # "FOUND" =>
                /\ pc' = "collect"
                /\ allow_printing' = allow_printing
                /\ shown' = shown
                /\ gate_log' = gate_log
                /\ exit_code' = exit_code
                /\ rounds' = rounds
    /\ (pc' = "found" /\ pc # "found") => ConsumeStep
    /\ (pc' = "gate" /\ pc # "gate") =>
          (pc = "found" /\ result.status = "FOUND" /\ shown' = result)

\* C16: the prompt is entered exactly for a consumed match; a RETRY or ERROR
\* outcome adds one to both counters, leaves the main thread collecting, and
\* changes neither the prompt, the exit status nor allow_printing.
C16_OnlyMatchGates ==
    [][OutcomeStep]_vars

\* an ERROR outcome just counted, collection going on
C16_Witness ==
    /\ pc = "collect"
    /\ last_step = "consume"
    /\ result = ERROR
    /\ completed_in_batch < CONCURRENT_WORKERS
    /\ allow_printing

\* a step while the prompt is open writes no progress line; a step that
\* counts an outcome is taken with allow_printing set and writes the line
PrintingStep ==
    /\ pc = "gate" => progress' = progress
    /\ ConsumeStep =>
          /\ allow_printing
          /\ allow_printing'
          /\ progress' = <<total_attempts', completed_in_batch'>>

\* C17: while the prompt is open allow_printing is cleared and no progress
\* line is written; allow_printing is set again when the operator continues,
\* so every outcome counted afterwards is counted with the flag set.
C17_ProgressSuppressed ==
    /\ [](pc = "gate" => ~allow_printing)
    /\ [](last_step = "continue" => allow_printing)
    /\ [][PrintingStep]_vars

\* an outcome counted, and its progress line written, after a prompt of the
\* same batch was answered with Continue
C17_Witness ==
    /\ last_step = "consume"
    /\ pc = "collect"
    /\ gate_log # {}
    /\ allow_printing
    /\ progress = <<total_attempts, completed_in_batch>>
    /\ <<rounds, completed_in_batch>> \notin gate_log

\* a future is consumed once, from done, and that adds one to both counters
ConsumedOnceStep ==
    \A w \in Workers :
        /\ (futures'[w].state = "yielded" /\ futures[w].state # "yielded") =>
              /\ futures[w].state = "done"
              /\ total_attempts' = total_attempts + 1
              /\ completed_in_batch' = completed_in_batch + 1
        /\ (futures[w].state = "yielded" /\ futures'[w].state # "yielded") =>
              rounds' = rounds + 1

\* C18: the counters agree with the futures consumed: completed_in_batch is
\* the number of consumed futures of the current batch, between 0 and
\* CONCURRENT_WORKERS, and total_attempts is CONCURRENT_WORKERS for each
\* batch before the current one plus completed_in_batch.
C18_CountersExact ==
    /\ [](/\ completed_in_batch = Cardinality(Yielded)
          /\ completed_in_batch >= 0
          /\ completed_in_batch <= CONCURRENT_WORKERS
          /\ total_attempts =
                (IF rounds = 0 THEN 0 ELSE (rounds - 1) * CONCURRENT_WORKERS)
                + completed_in_batch)
    /\ [][ConsumedOnceStep]_vars

\* the second batch partly counted while another worker has finished
C18_Witness ==
    /\ rounds = 2
    /\ pc = "collect"
    /\ completed_in_batch = 1
    /\ total_attempts = CONCURRENT_WORKERS + 1
    /\ \E w \in Workers : futures[w].state = "done"

\* the consumed futures of the current batch that hold a match
FoundYielded == {w \in Yielded : futures[w].outcome.status = "FOUND"}

\* the reason check_number_rules gives for the number of outcome o
ReasonOf(o) ==
    LET v == check_number_rules(o.number) IN <<v.rule, v.arg>>

\* C19: every match consumed gets its own prompt: the prompts of a batch are
\* as many as its consumed matches (less the one about to be shown), and the
\* prompt shows the outcome just consumed, with the number, the reason the
\* rules give for that number and the response of the same call.
C19_EveryMatchPresented ==
    /\ Cardinality(gate_log) =
          Cardinality(FoundYielded) - (IF pc = "found" THEN 1 ELSE 0)
    /\ pc \in {"found", "gate"} =>
          /\ result.status = "FOUND"
          /\ \E w \in FoundYielded : futures[w].outcome = result
    /\ pc = "gate" =>
          /\ shown = result
          /\ <<rounds, completed_in_batch>> \in gate_log
          /\ JustifiedMatch(shown)
          /\ shown.reason = ReasonOf(shown)

\* the second prompt of a batch, for a match other than the first one
C19_Witness ==
    /\ pc = "gate"
    /\ Cardinality(gate_log) = 2
    /\ \E w \in FoundYielded : futures[w].outcome # shown

StopChosen == pc \in {"exiting", "stopped"}

\* C20: with workers that return and an operator who answers every prompt:
\* unless the operator stops, batch follows batch up to the bound MaxRounds
\* of the model; a match held by a finished future is shown at
\* the prompt unless the operator stops first; and after 'q' the process
\* ends.
C20_Progress ==
    /\ (rounds < MaxRounds) ~> (rounds = MaxRounds \/ StopChosen)
    /\ \A w \in Workers :
          (futures[w].state = "done" /\ futures[w].outcome.status = "FOUND")
            ~> \/ /\ pc = "gate"
                  /\ futures[w].state = "yielded"
                  /\ shown = futures[w].outcome
               \/ StopChosen
    /\ (pc = "exiting") ~> (pc = "stopped" /\ exit_code = Some(0))

\* the second batch submitted and a match of it shown at the prompt
C20_Witness ==
    /\ rounds = 2
    /\ pc = "gate"
    /\ last_step = "present"
    /\ total_attempts > CONCURRENT_WORKERS
    /\ progress # <<>>

\* ------------------------------------------------ rule engine harness
\* the blocks the candidates of the harness are built from: single digits and
\* the patterns the rules look for
CandidateParts ==
    { <<0>>, <<1>>, <<2>>, <<3>>, <<4>>,
      <<1, 1, 1>>, <<1, 2, 3, 4, 5>>, <<5, 4, 3, 2, 1>>,
      <<6, 7, 8, 9>>, <<4, 3, 2, 1>> }

RECURSIVE Concat(_)
Concat(ps) == IF ps = <<>> THEN <<>> ELSE Head(ps) \o Concat(Tail(ps))

CandidateStrings ==
    {Concat(ps) : ps \in UNION {[1..n -> CandidateParts] : n \in 0..MaxParts}}

\* literal target lists the harness is configured with
TargetLists ==
    { <<>>,
      << <<2, 3>>, <<1, 1, 1>> >>,
      << <<>> >> }

ClassifyInit ==
    /\ ENABLE_A4 \in BOOLEAN
    /\ ENABLE_A3 \in BOOLEAN
    /\ ENABLE_ABC \in BOOLEAN
    /\ ENABLE_ABCD \in BOOLEAN
    /\ CUSTOM_TARGETS \in TargetLists
    /\ phone_number \in {None} \cup {Some(s) : s \in CandidateStrings}
    /\ verdict = NoResult
    /\ MainInit

Classify ==
    /\ verdict = NoResult
    /\ verdict' = check_number_rules(phone_number)
    /\ UNCHANGED <<cfgvars, phone_number, mainvars>>

ClassifyNext == Classify

ClassifySpec == ClassifyInit /\ [][ClassifyNext]_vars

Classified == verdict # NoResult
NonEmpty == phone_number # None /\ phone_number[1] # <<>>
Cand == phone_number[1]

\* C4: a non-empty candidate that contains a configured literal is matched,
\* and the reason names the first literal, in list order, that it contains,
\* whatever the toggles and whatever runs the candidate also holds.
C4_LiteralWins ==
    (Classified /\ NonEmpty /\ HasLiteral(Cand)) =>
        /\ verdict.matched
        /\ verdict.rule = "custom"
        /\ \E j \in 1..Len(CUSTOM_TARGETS) :
              /\ verdict.arg = CUSTOM_TARGETS[j]
              /\ Occurs(CUSTOM_TARGETS[j], Cand)
              /\ \A k \in 1..(j - 1) : ~Occurs(CUSTOM_TARGETS[k], Cand)

\* a candidate holding both literals (the second of the list first in the
\* string) and a 4-run, with the run rules on, is reported for the first
\* literal of the list
C4_Witness ==
    /\ Classified /\ NonEmpty
    /\ CUSTOM_TARGETS = << <<2, 3>>, <<1, 1, 1>> >>
    /\ Cand = <<1, 1, 1, 1, 2, 3, 4, 5>>
    /\ ENABLE_A4 /\ ENABLE_A3
    /\ verdict = Result(TRUE, "custom", <<2, 3>>)

SeqRuleLen(rule) ==
    IF rule \in {"forward5", "backward5"} THEN 5
    ELSE IF rule \in {"forward4", "backward4"} THEN 4
    ELSE 3

\* C5: the verdict is that of the first applicable rule in the order
\* literal, 4-run, 3-run, 5-sequence, 4-sequence, 3-sequence; the reason
\* names that rule (a sequence reason quotes a run of that length found in
\* the candidate, ascending for forward and descending for backward), and
\* when no rule applies the verdict is unmatched, "ordinary number".
C5_FirstRuleWins ==
    (Classified /\ NonEmpty) =>
        /\ verdict.rule \in ExpectedRules(Cand)
        /\ verdict.matched = (verdict.rule # "ordinary")
        /\ verdict.rule \in {"forward5", "forward4", "forward3"} =>
              /\ verdict.arg \in AscRuns(SeqRuleLen(verdict.rule))
              /\ Occurs(verdict.arg, Cand)
        /\ verdict.rule \in {"backward5", "backward4", "backward3"} =>
              /\ verdict.arg \in DescRuns(SeqRuleLen(verdict.rule))
              /\ Occurs(verdict.arg, Cand)
        /\ verdict.rule \in {"A4", "A3", "ordinary"} => verdict.arg = <<>>

\* a 4-run with the 3-run and the 3-sequence rules also applicable
C5_Witness ==
    /\ Classified /\ NonEmpty
    /\ ~HasLiteral(Cand)
    /\ ENABLE_A4 /\ ENABLE_A3 /\ ENABLE_ABC
    /\ HasRun(Cand, 4) /\ HasSeq(Cand, 3)
    /\ verdict = Result(TRUE, "A4", <<>>)

\* C6: a candidate holding a 5-digit ascending or descending run is matched
\* under every setting of the toggles and every literal list.
C6_FiveRunUngated ==
    (Classified /\ NonEmpty /\ HasSeq(Cand, 5)) => verdict.matched

\* every toggle off, no literal configured, and the 5-run still matches
C6_Witness ==
    /\ Classified /\ NonEmpty
    /\ ~ENABLE_A4 /\ ~ENABLE_A3 /\ ~ENABLE_ABC /\ ~ENABLE_ABCD
    /\ CUSTOM_TARGETS = <<>>
    /\ Cand = <<5, 4, 3, 2, 1>>
    /\ verdict = Result(TRUE, "backward5", <<5, 4, 3, 2, 1>>)

\* C7: a candidate with a 3-run but no 4-run, no literal and no enabled
\* sequence is matched exactly when the 3-run rule is enabled, whatever the
\* 4-run toggle.
C7_ThreeRunToggle ==
    (/\ Classified /\ NonEmpty
     /\ HasRun(Cand, 3) /\ ~HasRun(Cand, 4)
     /\ ~HasLiteral(Cand)
     /\ ~HasSeq(Cand, 5)
     /\ ~(ENABLE_ABCD /\ HasSeq(Cand, 4))
     /\ ~(ENABLE_ABC /\ HasSeq(Cand, 3)))
    => /\ verdict.matched = ENABLE_A3
       /\ ENABLE_A3 => verdict.rule = "A3"
       /\ ~ENABLE_A3 => verdict.rule = "ordinary"

\* the 3-run rule on with the 4-run rule off
C7_Witness ==
    /\ Classified /\ NonEmpty
    /\ ENABLE_A3 /\ ~ENABLE_A4
    /\ ~HasLiteral(Cand)
    /\ HasRun(Cand, 3) /\ ~HasRun(Cand, 4)
    /\ verdict = Result(TRUE, "A3", <<>>)

\* C8: None and the empty string classify as unmatched with the reason
\* "empty input" under every configuration.
C8_EmptyInput ==
    (Classified /\ ~NonEmpty) => verdict = Result(FALSE, "empty", <<>>)

\* the empty string under a literal list whose literal occurs in any string
C8_Witness ==
    /\ Classified
    /\ phone_number = Some(<<>>)
    /\ CUSTOM_TARGETS = << <<>> >>
    /\ verdict = Result(FALSE, "empty", <<>>)

====
